---- MODULE Spec2Model ----
(***************************************************************************)
(* A model of the transport client (src/transport): the config parser, the *)
(* range iterator, the sliding Window, the response decoder and the        *)
(* Downloader, from its construction to the end of its loop.               *)
(*                                                                         *)
(* Byte contents are abstracted to "chunks": a chunk [start, len, src]     *)
(* stands for len bytes which, when src is TRUE, are the bytes of the      *)
(* source file at offsets start .. start+len-1, and otherwise are bytes    *)
(* that do not come from that place of the source file.                    *)
(***************************************************************************)
EXTENDS Integers, Sequences, FiniteSets, TLC

VARIABLES
    argv,               \* the command-line arguments not yet read by DownloaderConfig::try_from
    file_exists,        \* a file of the output file's name exists
    file_size,          \* DownloaderConfig.size, then Downloader.file_size
    queue,              \* Window.queue
    received_buffer,    \* Window.received_buffer
    read_seg_count,     \* Window.read_seg_count
    base_byte_offset,   \* SegmentByteRangeIter.base_byte_offset
    bytes_downloaded,   \* local of Downloader::download
    file,               \* what has been appended through file_handle, one entry per write_all
    requested,          \* byte ranges for which a request datagram has been sent
    sent,               \* the request datagrams emitted by the latest send phase, in order
    message_buffer,     \* the datagram recv_from put last into the receive buffer
    socket,             \* "unbound", or the mode of the bound socket: "blocking", "nonblocking"
    timeout,            \* local of Downloader::download: what is left of the deadline, in ms
    stderr,             \* the message fail_with_message has printed ("" when none)
    pc,                 \* "start", "new", "loop", "wait", "drain", "done", "exit1",
                        \* "panic", "assert_failed"
    twin,               \* a second run of the same program, used to compare two runs
    seg_iter,           \* a SegmentByteRangeIter run on its own, with what it has yielded
    registry            \* a Registry run on its own, with the epoll instance it owns

vars == <<argv, file_exists, file_size, queue, received_buffer, read_seg_count,
          base_byte_offset, bytes_downloaded, file, requested, sent, message_buffer,
          socket, timeout, stderr, pc, twin, seg_iter, registry>>

\* what a step of the Downloader leaves alone
env == <<argv, file_exists, file_size, twin, seg_iter, registry>>

----------------------------------------------------------------------------
(* Bounds of the model *)

\* the capacity of the window, Window::SIZE, which is 1000 in window.rs:23 and
\* is scaled down here
SIZE == 4
\* the largest file has MaxFullSegs full segments, optionally followed by a short one
MaxFullSegs == 4

(* Program constants *)
SegmentSIZE == 500
MIN_HEADER_SIZE == 9
MAX_SIZE == 519
MAX_DATA_LENGTH == 500

\* Downloader::TIMEOUT, in milliseconds
TIMEOUT == 1000

\* length of the short last segment of the files that have one
TailLen == 123
FileSizes == { k * SegmentSIZE + t : k \in 0..MaxFullSegs, t \in {0, TailLen} }

\* a header field that is missing or is not a decimal number
NaN == 0 - 1

----------------------------------------------------------------------------
(* ByteRange and the range iterator *)

ByteRange(s, e) == [start |-> s, end |-> e]
RangeLen(r) == r.end - r.start

\* SegmentByteRangeIter::next, mutated: the end is not cut at the file's size
IterNextRange_unclamped(off, fsize, seg) == ByteRange(off, off + seg)

\* SegmentByteRangeIter::next: the range produced at offset off (when there is one)
IterHasNext(off, fsize) == off < fsize
IterNextRange(off, fsize, seg) ==
    LET diff == fsize - off
    IN  ByteRange(off, off + (IF diff < seg THEN diff ELSE seg))

----------------------------------------------------------------------------
(* Segment *)

NoData == [start |-> 0, len |-> 0, src |-> FALSE]

\* Segment::new / Segment::with_buffer (the buffer handed over has been cleared)
Segment_with_buffer(byte_range) ==
    [byte_range |-> byte_range, status |-> "NotReceived", data |-> NoData]

Segment_is_received(seg) == seg.status = "Received"

\* <Segment as Write>::write_all: the payload becomes the data, the segment is Received
Segment_write_all(seg, data) == [seg EXCEPT !.status = "Received", !.data = data]

\* Segment::len
Segment_len(seg) == RangeLen(seg.byte_range)

\* <Segment as AsRef<[u8]>>::as_ref: the bytes handed to the file
Segment_as_ref(seg) == seg.data

----------------------------------------------------------------------------
(* Window; a window is the part [queue, received_buffer, read_seg_count]    *)
(* of a downloader record d                                                 *)

RECURSIVE TakeRanges(_, _, _)
\* segment_byte_ranges.map(Segment::new).take(n), from iterator offset off
TakeRanges(off, fsize, n) ==
    IF n = 0 \/ ~IterHasNext(off, fsize) THEN <<>>
    ELSE LET r == IterNextRange(off, fsize, SegmentSIZE)
         IN  <<Segment_with_buffer(r)>> \o TakeRanges(r.end, fsize, n - 1)

\* the iterator's offset after n calls of next from offset off
RECURSIVE OffsetAfter(_, _, _)
OffsetAfter(off, fsize, n) ==
    IF n = 0 \/ ~IterHasNext(off, fsize) THEN off
    ELSE OffsetAfter(IterNextRange(off, fsize, SegmentSIZE).end, fsize, n - 1)

\* Window::new, mutated: one more range is pulled from the iterator than
\* the queue is given
Window_new_overtaken(fsize) ==
    [queue            |-> TakeRanges(0, fsize, SIZE),
     base_byte_offset |-> OffsetAfter(0, fsize, SIZE + 1)]

\* Window::new, mutated: take(SIZE) is missing
Window_new_untaken(fsize) ==
    [queue            |-> TakeRanges(0, fsize, fsize),
     base_byte_offset |-> OffsetAfter(0, fsize, fsize)]

\* Window::new: up to SIZE ranges are taken from the iterator, which is left at
\* the next range
Window_new(fsize) ==
    [queue            |-> TakeRanges(0, fsize, SIZE),
     base_byte_offset |-> OffsetAfter(0, fsize, SIZE)]

RECURSIVE slide_len(_)
\* Window::slide_len: the length of the longest prefix of received segments
slide_len(q) ==
    IF q = <<>> \/ ~Segment_is_received(Head(q)) THEN 0
    ELSE 1 + slide_len(Tail(q))

\* Window::shrink, mutated: read_seg_count is assigned, not accumulated
Window_shrink_assign(d) ==
    LET k   == slide_len(d.queue)
        buf == d.received_buffer \o SubSeq(d.queue, 1, k)
    IN  [d EXCEPT !.received_buffer = buf,
                  !.queue = SubSeq(d.queue, k + 1, Len(d.queue)),
                  !.read_seg_count = Len(buf)]

\* Window::shrink, mutated: every received segment is drained, not only those
\* of the received prefix
Window_shrink_retain(d) ==
    LET got == SelectSeq(d.queue, LAMBDA s : Segment_is_received(s))
        buf == d.received_buffer \o got
    IN  [d EXCEPT !.received_buffer = buf,
                  !.queue = SelectSeq(d.queue, LAMBDA s : ~Segment_is_received(s)),
                  !.read_seg_count = @ + Len(buf)]

\* Window::shrink: the received prefix of the queue is moved to the end of
\* received_buffer, read_seg_count grows by the length of the whole buffer, and
\* the whole buffer is what the caller gets
Window_shrink(d) ==
    LET k   == slide_len(d.queue)
        buf == d.received_buffer \o SubSeq(d.queue, 1, k)
    IN  [d EXCEPT !.received_buffer = buf,
                  !.queue = SubSeq(d.queue, k + 1, Len(d.queue)),
                  !.read_seg_count = @ + Len(buf)]

\* Window::extend, mutated: "if let" in the place of "while let", one recycled
\* segment at most is taken per call
Window_extend_once(d) ==
    IF d.received_buffer = <<>> THEN d
    ELSE LET rest == SubSeq(d.received_buffer, 1, Len(d.received_buffer) - 1)
         IN  IF IterHasNext(d.base_byte_offset, file_size)
             THEN LET r == IterNextRange(d.base_byte_offset, file_size, SegmentSIZE)
                  IN  [d EXCEPT !.received_buffer = rest,
                                !.queue = Append(@, Segment_with_buffer(r)),
                                !.base_byte_offset = r.end]
             ELSE [d EXCEPT !.received_buffer = rest]

RECURSIVE Window_extend(_)
\* Window::extend: pop the recycled segments from the back; each popped segment
\* whose pop is followed by a range of the iterator becomes a new segment at the
\* back of the queue; the first pop that finds the iterator exhausted ends the
\* loop (the popped segment is dropped, the others stay in received_buffer)
Window_extend(d) ==
    IF d.received_buffer = <<>> THEN d
    ELSE LET rest == SubSeq(d.received_buffer, 1, Len(d.received_buffer) - 1)
         IN  IF IterHasNext(d.base_byte_offset, file_size)
             THEN LET r == IterNextRange(d.base_byte_offset, file_size, SegmentSIZE)
                  IN  Window_extend(
                          [d EXCEPT !.received_buffer = rest,
                                    !.queue = Append(@, Segment_with_buffer(r)),
                                    !.base_byte_offset = r.end])
             ELSE [d EXCEPT !.received_buffer = rest]

\* Window::contains, mutated: the end of the window is taken as part of it
Window_contains_inclusive(d, r) ==
    /\ d.read_seg_count * SegmentSIZE <= r.start
    /\ r.start <= (d.read_seg_count + Len(d.queue)) * SegmentSIZE

\* Window::contains, mutated: the start is not compared with the window's base
Window_contains_nobase(d, r) ==
    r.start < (d.read_seg_count + Len(d.queue)) * SegmentSIZE

\* Window::contains
Window_contains(d, r) ==
    /\ d.read_seg_count * SegmentSIZE <= r.start
    /\ r.start < (d.read_seg_count + Len(d.queue)) * SegmentSIZE

\* IndexMut<&ByteRange> for Window: the (1-based) place in the queue
Window_index(d, r) == (r.start \div SegmentSIZE) - d.read_seg_count + 1

----------------------------------------------------------------------------
(* Datagrams and Response::new *)

\* number of decimal digits of a header field (a field that is no number is
\* taken to be three characters, as in "abc")
Digits(n) ==
    IF n < 0 THEN 3
    ELSE IF n < 10 THEN 1
    ELSE IF n < 100 THEN 2
    ELSE IF n < 1000 THEN 3
    ELSE IF n < 10000 THEN 4
    ELSE 5

\* index of the LF of "DATA <start> <length>\n"
NewlineIndex(m) == 5 + Digits(m.start) + 1 + Digits(m.length)

\* the size recv_from reports for datagram m (what exceeds the buffer is cut)
MessageSize(m) ==
    IF m.kind = "runt" THEN 1
    ELSE IF m.kind = "nolf" THEN MAX_SIZE
    ELSE LET n == NewlineIndex(m) + 1 + m.body
         IN  IF n > MAX_SIZE THEN MAX_SIZE ELSE n

\* Response::is_message_size_valid
is_message_size_valid(size) == MIN_HEADER_SIZE <= size /\ size <= MAX_SIZE

\* Response::new on the receive buffer after recv_from has put datagram m at
\* its start: the process exits (or_fail_with_message), panics (assert!, slice
\* index) or a Response is built.  Response::new is given the whole buffer of
\* MAX_SIZE bytes, not the bytes of the datagram: when the datagram holds fewer
\* than length bytes after the LF, the payload is completed with the bytes an
\* earlier datagram left in the buffer, and is not the source's bytes.  A
\* datagram of kind "nolf" is one of MAX_SIZE bytes none of which is a LF, so
\* that no earlier byte is left behind it.
Response_new(m) ==
    IF m.kind = "nolf" THEN [outcome |-> "exit1"]
    ELSE IF m.start = NaN \/ m.length = NaN THEN [outcome |-> "exit1"]
    ELSE IF m.length > MAX_DATA_LENGTH THEN [outcome |-> "panic"]
    ELSE IF NewlineIndex(m) + 1 + m.length > MAX_SIZE THEN [outcome |-> "panic"]
    ELSE [outcome    |-> "ok",
          byte_range |-> ByteRange(m.start, m.start + m.length),
          data       |-> [start |-> m.start, len |-> m.length,
                          src |-> m.src /\ m.body >= m.length]]

Datagram(sender, kind, start, length, body, src) ==
    [sender |-> sender, kind |-> kind, start |-> start, length |-> length,
     body |-> body, src |-> src]

\* the response a correct server gives to the request for range r
ServerResponse(r) ==
    Datagram("server", "data", r.start, RangeLen(r), RangeLen(r), TRUE)

\* the responses that may arrive when the server is correct and the channel
\* loses, duplicates and reorders: any response to any request sent so far
ServerResponses(d) == { ServerResponse(r) : r \in d.requested }

\* malformed datagrams: no LF; a start that is no number; a length that is no
\* number; a length above 500; fewer payload bytes than the length says
Malformed ==
    { Datagram("server", "nolf", NaN, NaN, 0, FALSE),
      Datagram("server", "data", NaN, 10, 10, FALSE),
      Datagram("server", "data", 0, NaN, 10, FALSE),
      Datagram("server", "data", 0, 501, 501, TRUE),
      Datagram("server", "data", 0, 500, 10, TRUE) }

\* other datagrams that are no response of a correct server: another sender;
\* a datagram of one byte; a short payload for a full segment; a start that is
\* no multiple of 500; a range far beyond the file
Foreign ==
    { Datagram("other", "data", 0, 500, 500, FALSE),
      Datagram("server", "runt", NaN, NaN, 0, FALSE),
      Datagram("server", "data", 500, TailLen, TailLen, TRUE),
      Datagram("server", "data", 1, 500, 500, TRUE),
      Datagram("server", "data", 50000, 500, 500, TRUE) }

\* datagrams of another sender, with the contents of the responses of a correct
\* server and of malformed datagrams
OtherSender(d) ==
    { [m EXCEPT !.sender = "other"] : m \in ServerResponses(d) \cup Malformed }

AnyDatagram(d) == ServerResponses(d) \cup Malformed \cup Foreign \cup OtherSender(d)

\* the receive buffer of download before the first recv_from: zeros
NoDatagram == Datagram("none", "zeros", NaN, NaN, 0, FALSE)

\* <Request as Display>::fmt, mutated: the end of the range is written in the
\* place of its length
Request_fmt_end(byte_range) ==
    [verb |-> "GET", start |-> byte_range.start, length |-> byte_range.end, lf |-> TRUE]

\* <Request as Display>::fmt: the text "GET <start> <length>\n", as its fields
Request_fmt(byte_range) ==
    [verb |-> "GET", start |-> byte_range.start, length |-> RangeLen(byte_range), lf |-> TRUE]

\* Segment::request and its formatting into the request buffer
Segment_request(seg) == Request_fmt(seg.byte_range)

----------------------------------------------------------------------------
(* util and the config parser *)

\* util::fail_with_message, mutated: the message is printed and the call returns
fail_with_message_returns(d, message) == [d EXCEPT !.stderr = message]

\* util::fail_with_message (reached directly, or through or_fail_with_message):
\* the message is printed and the process exits with status 1
fail_with_message(d, message) == [d EXCEPT !.stderr = message, !.pc = "exit1"]

\* a command-line argument: the text of an IPv4 address ("ip"), of a decimal
\* number ("num", with its value) or any other text ("word")
Token(kind, val) == [kind |-> kind, val |-> val]

\* str::parse::<Ipv4Addr>, ::<u16> and ::<usize> succeed
parse_Ipv4Addr_ok(t) == t.kind = "ip"
parse_u16_ok(t) == t.kind = "num" /\ t.val <= 65535
parse_usize_ok(t) == t.kind = "num"

\* the body of DownloaderConfig::try_from when the address is read with
\* iter.nth(first - 1): the parameters are read one after the other, and the
\* first one that is missing or does not parse ends the process
ConfigFrom(args, first) ==
    LET after(n) == SubSeq(args, n + 1, Len(args))
        fail(message, n) == [outcome |-> "exit1", message |-> message, rest |-> after(n)]
    IN  IF Len(args) < first THEN fail("server ipv4 address missing", Len(args))
        ELSE IF ~parse_Ipv4Addr_ok(args[first])
             THEN fail("invalid format of server ipv4 address", first)
        ELSE IF Len(args) < first + 1 THEN fail("server port missing", Len(args))
        ELSE IF ~parse_u16_ok(args[first + 1])
             THEN fail("invalid format of server port", first + 1)
        ELSE IF Len(args) < first + 2 THEN fail("file name missing", Len(args))
        ELSE IF Len(args) < first + 3 THEN fail("file length missing", Len(args))
        ELSE IF ~parse_usize_ok(args[first + 3])
             THEN fail("invalid format of file length", first + 3)
        ELSE [outcome |-> "ok", size |-> args[first + 3].val, rest |-> after(first + 3)]

\* DownloaderConfig::try_from, mutated: the address is read with iter.nth(0)
DownloaderConfig_try_from_nth0(args) == ConfigFrom(args, 1)

\* DownloaderConfig::try_from: iter.nth(1) skips the program's name
DownloaderConfig_try_from(args) == ConfigFrom(args, 2)

----------------------------------------------------------------------------
(* Downloader *)

\* the program before DownloaderConfig::try_from, its output file holding
\* content when a file of that name exists
Unbuilt(content) ==
    [queue            |-> <<>>,
     received_buffer  |-> <<>>,
     read_seg_count   |-> 0,
     base_byte_offset |-> 0,
     bytes_downloaded |-> 0,
     file             |-> content,
     requested        |-> {},
     sent             |-> <<>>,
     message_buffer   |-> NoDatagram,
     socket           |-> "unbound",
     timeout          |-> TIMEOUT,
     stderr           |-> "",
     pc               |-> "start"]

\* OpenOptions::new().write(true).create_new(true).open, mutated:
\* append(true).create(true), which opens the file that exists
OpenOptions_open_append(exists) == "ok"

\* OpenOptions::new().write(true).create_new(true).open(file_name)
OpenOptions_open(exists) == IF exists THEN "err" ELSE "ok"

\* Downloader::new for a file of fsize bytes, when exists tells whether a file
\* of the output file's name exists: the socket is bound, the file is opened,
\* the window is built
Downloader_new(d, fsize, exists) ==
    LET bound == [d EXCEPT !.socket = "blocking"]
    IN  IF OpenOptions_open(exists) = "err"
        THEN fail_with_message(bound, "error occurred while opening the file")
        ELSE [bound EXCEPT !.queue = Window_new(fsize).queue,
                           !.base_byte_offset = Window_new(fsize).base_byte_offset,
                           !.pc = "loop"]

\* Window::unacknowledged_segments, mutated: the received segments are kept
unacknowledged_segments_received(d) ==
    SelectSeq(d.queue, LAMBDA s : Segment_is_received(s))

\* Window::unacknowledged_segments
unacknowledged_segments(d) == SelectSeq(d.queue, LAMBDA s : ~Segment_is_received(s))

RECURSIVE SendAll(_, _, _)
\* the for loop of Downloader::send_window_with_buf over the segments segs;
\* send_to returns an error at the fail-th segment (at none when fail is 0)
SendAll(d, segs, fail) ==
    IF segs = <<>> \/ d.pc = "exit1" THEN d
    ELSE IF fail = 1
         THEN SendAll(fail_with_message(d, "cannot send to the server"), Tail(segs), 0)
         ELSE SendAll([d EXCEPT !.sent = Append(@, Segment_request(Head(segs))),
                                !.requested = @ \cup {Head(segs).byte_range}],
                      Tail(segs), fail - 1)

\* the send phase, mutated: the socket is not set to blocking mode before the
\* requests are sent
SendStep_noblock(d, fail) ==
    LET s == SendAll([d EXCEPT !.sent = <<>>], unacknowledged_segments(d), fail)
    IN  IF s.pc = "exit1" THEN s
        ELSE [s EXCEPT !.socket = "nonblocking", !.pc = "wait"]

\* the send phase, mutated: the response to the first request is received and
\* recorded before the wait
SendStep_receiving(d, fail) ==
    LET s == SendAll([d EXCEPT !.socket = "blocking", !.sent = <<>>],
                     unacknowledged_segments(d), fail)
        m == Datagram("server", "data", s.read_seg_count * SegmentSIZE + d.base_byte_offset,
                      SegmentSIZE, SegmentSIZE, TRUE)
        b == [s EXCEPT !.message_buffer = m, !.socket = "nonblocking"]
    IN  IF s.pc = "exit1" THEN s
        ELSE IF Response_new(m).outcome = "ok" /\ b.queue # <<>>
                /\ ~Segment_is_received(b.queue[1])
        THEN [b EXCEPT !.queue[1] = Segment_write_all(@, Response_new(m).data),
                       !.pc = "wait"]
        ELSE [b EXCEPT !.pc = "wait"]

\* the send phase of an iteration of download, up to the wait
SendStep(d, fail) ==
    LET s == SendAll([d EXCEPT !.socket = "blocking", !.sent = <<>>],
                     unacknowledged_segments(d), fail)
    IN  IF s.pc = "exit1" THEN s
        ELSE [s EXCEPT !.socket = "nonblocking", !.pc = "wait"]

\* the first arm of the match of Downloader::store_segments, mutated: the
\* segment is written whether it is received or not
StoreResponse_overwrite(b, m) ==
    LET response == Response_new(m)
    IN  IF response.outcome = "exit1"
        THEN fail_with_message(b, "invalid response format")
        ELSE IF response.outcome # "ok" THEN [b EXCEPT !.pc = response.outcome]
        ELSE IF Window_contains(b, response.byte_range)
        THEN LET i == Window_index(b, response.byte_range)
             IN  IF i < 1 \/ i > Len(b.queue) THEN [b EXCEPT !.pc = "panic"]
                 ELSE [b EXCEPT !.queue[i] = Segment_write_all(@, response.data),
                                !.pc = "drain"]
        ELSE [b EXCEPT !.pc = "drain"]

\* the first arm of the match of Downloader::store_segments, on the receive
\* buffer holding datagram m: the response is decoded and, when the window
\* contains its range and the segment at its index is not received, recorded
StoreResponse(b, m) ==
    LET response == Response_new(m)
    IN  IF response.outcome = "exit1"
        THEN fail_with_message(b, "invalid response format")
        ELSE IF response.outcome # "ok" THEN [b EXCEPT !.pc = response.outcome]
        ELSE IF Window_contains(b, response.byte_range)
        THEN LET i == Window_index(b, response.byte_range)
             IN  IF i < 1 \/ i > Len(b.queue) THEN [b EXCEPT !.pc = "panic"]
                 ELSE IF ~Segment_is_received(b.queue[i])
                 THEN [b EXCEPT !.queue[i] = Segment_write_all(@, response.data),
                                !.pc = "drain"]
                 ELSE [b EXCEPT !.pc = "drain"]
        ELSE [b EXCEPT !.pc = "drain"]

\* Downloader::store_segments, mutated: the sender is not compared
store_segments_anysender(d, m) ==
    LET b == [d EXCEPT !.message_buffer = m]
    IN  IF is_message_size_valid(MessageSize(m))
        THEN StoreResponse(b, m)
        ELSE [b EXCEPT !.pc = "drain"]

\* one pass of the loop of Downloader::store_segments: recv_from yields the
\* datagram m, which is decoded when it comes from the server and has a valid
\* size, and is skipped otherwise
store_segments(d, m) ==
    LET b == [d EXCEPT !.message_buffer = m]
    IN  IF m.sender = "server" /\ is_message_size_valid(MessageSize(m))
        THEN StoreResponse(b, m)
        ELSE [b EXCEPT !.pc = "drain"]

\* Duration::sub, which timeout.saturating_sub is not: the plain difference
Duration_sub(a, b) == a - b

\* Duration::saturating_sub
saturating_sub(a, b) == IF a >= b THEN a - b ELSE 0

\* the ReadReady arm: the wait has taken sleep_time and the first recv_from of
\* store_segments yields the datagram m
ReadReadyStep(d, sleep_time, m) ==
    store_segments([d EXCEPT !.timeout = saturating_sub(@, sleep_time)], m)

RECURSIVE WriteAll(_, _, _)
\* the for loop of the Timeout arm: every segment of the slice shrink returned
\* is appended to the file and counted; write_all returns an error at the
\* fail-th segment (at none when fail is 0)
WriteAll(d, segs, fail) ==
    IF segs = <<>> \/ d.pc = "exit1" THEN d
    ELSE IF fail = 1
         THEN WriteAll(fail_with_message(d, "could not append to file"), Tail(segs), 0)
         ELSE WriteAll([d EXCEPT !.file = Append(@, [byte_range |-> Head(segs).byte_range,
                                                      data |-> Segment_as_ref(Head(segs))]),
                                 !.bytes_downloaded = @ + Segment_len(Head(segs))],
                       Tail(segs), fail - 1)

\* the end of an iteration of the while loop of Downloader::download
EndIteration(d) == [Window_extend(d) EXCEPT !.pc = "loop"]

\* the Timeout arm and the rest of the iteration
TimeoutStep(d, fail) ==
    LET s == Window_shrink([d EXCEPT !.timeout = TIMEOUT])
        w == WriteAll(s, s.received_buffer, fail)
    IN  IF w.pc = "exit1" THEN w ELSE EndIteration(w)

\* the test of the while loop: the send phase, or the return of download
LoopStep(d) ==
    IF d.bytes_downloaded < file_size THEN SendStep(d, 0) ELSE [d EXCEPT !.pc = "done"]

----------------------------------------------------------------------------
(* The state machine *)

Self ==
    [queue            |-> queue,
     received_buffer  |-> received_buffer,
     read_seg_count   |-> read_seg_count,
     base_byte_offset |-> base_byte_offset,
     bytes_downloaded |-> bytes_downloaded,
     file             |-> file,
     requested        |-> requested,
     sent             |-> sent,
     message_buffer   |-> message_buffer,
     socket           |-> socket,
     timeout          |-> timeout,
     stderr           |-> stderr,
     pc               |-> pc]

\* the program becomes the downloader record d (d is evaluated once)
Becomes(d) ==
    \E n \in {d} :
        /\ queue' = n.queue
        /\ received_buffer' = n.received_buffer
        /\ read_seg_count' = n.read_seg_count
        /\ base_byte_offset' = n.base_byte_offset
        /\ bytes_downloaded' = n.bytes_downloaded
        /\ file' = n.file
        /\ requested' = n.requested
        /\ sent' = n.sent
        /\ message_buffer' = n.message_buffer
        /\ socket' = n.socket
        /\ timeout' = n.timeout
        /\ stderr' = n.stderr
        /\ pc' = n.pc

NoTwin == [pc |-> "none"]

\* no Registry is run on its own
NoRegistry == [pc |-> "none"]

\* no iterator is run on its own
NoIter == [base_byte_offset |-> 0, file_size |-> 0, seg_size |-> 0,
           yielded |-> <<>>, ended |-> FALSE]

\* the command lines: the program's name followed by up to four arguments, each
\* the text of an address, of a number, or another text; and the empty one
Tokens == { Token("ip", 0), Token("word", 0) } \cup { Token("num", n) : n \in FileSizes }
Argvs ==
    { <<>> } \cup { <<Token("word", 0)>> \o a :
                      a \in UNION { [1..n -> Tokens] : n \in 0..4 } }

\* what a file of the output file's name holds before the program runs
Preexisting == <<[byte_range |-> ByteRange(0, 0), data |-> [start |-> 0, len |-> 7, src |-> FALSE]]>>

\* the program is the downloader record d
InitRun(d) ==
    /\ queue = d.queue
    /\ received_buffer = d.received_buffer
    /\ read_seg_count = d.read_seg_count
    /\ base_byte_offset = d.base_byte_offset
    /\ bytes_downloaded = d.bytes_downloaded
    /\ file = d.file
    /\ requested = d.requested
    /\ sent = d.sent
    /\ message_buffer = d.message_buffer
    /\ socket = d.socket
    /\ timeout = d.timeout
    /\ stderr = d.stderr
    /\ pc = d.pc

\* the process has been started with some command line; a file of the output
\* file's name may exist
Init ==
    /\ argv \in Argvs
    /\ file_exists \in BOOLEAN
    /\ file_size = 0
    /\ InitRun(Unbuilt(IF file_exists THEN Preexisting ELSE <<>>))
    /\ twin = NoTwin
    /\ seg_iter = NoIter
    /\ registry = NoRegistry

\* DownloaderConfig::try_from(env::args())
ParseConfig ==
    /\ pc = "start"
    /\ LET config == DownloaderConfig_try_from(argv)
       IN  /\ argv' = config.rest
           /\ IF config.outcome = "ok"
              THEN /\ file_size' = config.size
                   /\ Becomes([Self EXCEPT !.pc = "new"])
              ELSE /\ file_size' = file_size
                   /\ Becomes(fail_with_message(Self, config.message))
    /\ UNCHANGED <<file_exists, twin, seg_iter, registry>>

\* Downloader::from(config)
Construct ==
    /\ pc = "new"
    /\ Becomes(Downloader_new(Self, file_size, file_exists))
    /\ file_exists' = (file_exists \/ Downloader_new(Self, file_size, file_exists).pc = "loop")
    /\ UNCHANGED <<argv, file_size, twin, seg_iter, registry>>

\* the loop condition holds: the send phase, up to the wait
Send ==
    /\ pc = "loop"
    /\ bytes_downloaded < file_size
    /\ Becomes(SendStep(Self, 0))
    /\ UNCHANGED env

\* the loop condition holds, and a send_to of the send phase returns an error
SendError ==
    /\ pc = "loop"
    /\ bytes_downloaded < file_size
    /\ \E i \in 1..Len(unacknowledged_segments(Self)) : Becomes(SendStep(Self, i))
    /\ UNCHANGED env

\* the loop condition fails: download returns (the final assertion holds, or
\* the build has no debug assertions)
Exit ==
    /\ pc = "loop"
    /\ ~(bytes_downloaded < file_size)
    /\ Becomes([Self EXCEPT !.pc = "done"])
    /\ UNCHANGED env

\* debug_assert_eq!(bytes_downloaded, self.file_size) fails (a debug build)
AssertFail ==
    /\ pc = "loop"
    /\ ~(bytes_downloaded < file_size)
    /\ bytes_downloaded # file_size
    /\ Becomes([Self EXCEPT !.pc = "assert_failed"])
    /\ UNCHANGED env

\* the wait ends with Notification::Timeout
Timeout ==
    /\ pc = "wait"
    /\ Becomes(TimeoutStep(Self, 0))
    /\ UNCHANGED env

\* the wait ends with Notification::Timeout, and a write_all to the file
\* returns an error
WriteError ==
    /\ pc = "wait"
    /\ \E i \in 1..Len(Window_shrink(Self).received_buffer) : Becomes(TimeoutStep(Self, i))
    /\ UNCHANGED env

\* the socket is readable (the wait ends at once with Notification::ReadReady,
\* or the drain is under way) and recv_from yields the datagram m
Recv(m) ==
    /\ pc \in {"wait", "drain"}
    /\ Becomes(store_segments(Self, m))
    /\ UNCHANGED env

\* the wait ends after sleep_time with Notification::ReadReady, and recv_from
\* yields the datagram m
ReadReady(sleep_time, m) ==
    /\ pc = "wait"
    /\ Becomes(ReadReadyStep(Self, sleep_time, m))
    /\ UNCHANGED env

\* recv_from reports WouldBlock: the drain and the iteration end
WouldBlock ==
    /\ pc = "drain"
    /\ Becomes(EndIteration(Self))
    /\ UNCHANGED env

\* any datagram may arrive, and send_to and write_all may fail
Next ==
    \/ ParseConfig
    \/ Construct
    \/ Send
    \/ SendError
    \/ Exit
    \/ AssertFail
    \/ Timeout
    \/ WriteError
    \/ \E m \in AnyDatagram(Self) : Recv(m)
    \/ WouldBlock

Spec == Init /\ [][Next]_vars

\* only responses of a correct server arrive, lost, duplicated and reordered,
\* and neither send_to nor write_all fails
NextServer ==
    \/ ParseConfig
    \/ Construct
    \/ Send
    \/ Exit
    \/ AssertFail
    \/ Timeout
    \/ \E m \in ServerResponses(Self) : Recv(m)
    \/ WouldBlock

SpecServer == Init /\ [][NextServer]_vars

\* the server is correct and fair: the program's own steps are taken when
\* enabled, every wait ends, timeouts keep occurring and the response to a
\* range that keeps being requested is eventually the one received
Deliver(r) == r \in requested /\ Recv(ServerResponse(r))

AllRanges ==
    { ByteRange(k * SegmentSIZE, k * SegmentSIZE + n) :
        k \in 0..(MaxFullSegs + 1), n \in {SegmentSIZE, TailLen} }

Fairness ==
    /\ WF_vars(Send)
    /\ WF_vars(Exit)
    /\ WF_vars(WouldBlock)
    /\ SF_vars(Timeout)
    /\ \A r \in AllRanges : SF_vars(Deliver(r))

\* the state after the construction of the Downloader for a file that did not exist
InitBuilt ==
    /\ argv = <<>>
    /\ file_exists = TRUE
    /\ file_size \in FileSizes
    /\ InitRun(Downloader_new(Unbuilt(<<>>), file_size, FALSE))
    /\ twin = NoTwin
    /\ seg_iter = NoIter
    /\ registry = NoRegistry

\* the download, from the Downloader constructed, with the correct and fair server
NextDownload ==
    \/ Send
    \/ Exit
    \/ AssertFail
    \/ Timeout
    \/ \E m \in ServerResponses(Self) : Recv(m)
    \/ WouldBlock

FairSpecServer == InitBuilt /\ [][NextDownload]_vars /\ Fairness

----------------------------------------------------------------------------
(* The deadline: the download with the time each wait has taken *)

\* the waits that end with ReadReady have taken a multiple of SleepStep
\* milliseconds, up to MaxSleeps of them
SleepStep == 400
MaxSleeps == 3
SleepTimes == { k * SleepStep : k \in 0..MaxSleeps }

NextDeadline ==
    \/ Send
    \/ Exit
    \/ AssertFail
    \/ Timeout
    \/ \E sleep_time \in SleepTimes : \E m \in ServerResponses(Self) : ReadReady(sleep_time, m)
    \/ \E m \in ServerResponses(Self) : Recv(m)
    \/ WouldBlock

SpecDeadline == InitBuilt /\ [][NextDeadline]_vars

\* a wait ends with one outcome or the other
WaitEnds ==
    \/ Timeout
    \/ \E sleep_time \in SleepTimes : \E m \in ServerResponses(Self) : ReadReady(sleep_time, m)

\* the program's own steps are taken when enabled and every wait ends; which
\* outcome a wait has is up to the arrival of datagrams
FairnessDeadline ==
    /\ WF_vars(Send)
    /\ WF_vars(Exit)
    /\ WF_vars(WouldBlock)
    /\ WF_vars(WaitEnds)

FairSpecDeadline == InitBuilt /\ [][NextDeadline]_vars /\ FairnessDeadline

----------------------------------------------------------------------------
(* Two runs on the same file.  The second run (twin) is given every wait       *)
(* outcome and every datagram of the first, and in addition receives again,    *)
(* any number of times, response datagrams it has already received: inside a   *)
(* drain, or as a wakeup of its own.                                           *)

InitDup ==
    /\ argv = <<>>
    /\ file_exists = TRUE
    /\ file_size \in FileSizes
    /\ InitRun(Downloader_new(Unbuilt(<<>>), file_size, FALSE))
    /\ twin = Downloader_new(Unbuilt(<<>>), file_size, FALSE) @@ [delivered |-> {}]
    /\ seg_iter = NoIter
    /\ registry = NoRegistry

\* the step of a run that is at the test of the while loop
RunLoop(d) == IF d.pc = "loop" THEN LoopStep(d) ELSE d
\* the step of a run whose wait ends with a timeout
RunTimeout(d) == IF d.pc = "wait" THEN TimeoutStep(d, 0) ELSE d
\* the step of a run whose recv_from yields m
RunRecv(d, m) == IF d.pc \in {"wait", "drain"} THEN store_segments(d, m) ELSE d
\* the step of a run whose recv_from reports WouldBlock
RunWouldBlock(d) == IF d.pc = "drain" THEN EndIteration(d) ELSE d

\* the responses a correct server may have sent to a run that is still running
Answerable(d) == IF d.pc = "done" THEN {} ELSE ServerResponses(d)

\* what a step of the two runs leaves alone
envDup == <<argv, file_exists, file_size, seg_iter, registry>>

\* every run that is at the test of its loop takes it
PairLoop ==
    /\ pc = "loop" \/ twin.pc = "loop"
    /\ Becomes(RunLoop(Self))
    /\ twin' = RunLoop(twin)
    /\ UNCHANGED envDup

\* the wait of every run that is still running ends with a timeout
PairTimeout ==
    /\ pc \in {"wait", "done"} /\ twin.pc \in {"wait", "done"}
    /\ pc = "wait" \/ twin.pc = "wait"
    /\ Becomes(RunTimeout(Self))
    /\ twin' = RunTimeout(twin)
    /\ UNCHANGED envDup

\* both runs receive the datagram m
PairRecv(m) ==
    /\ pc \in {"wait", "drain"} /\ twin.pc = pc
    /\ Becomes(RunRecv(Self, m))
    /\ twin' = [RunRecv(twin, m) EXCEPT !.delivered = @ \cup {m}]
    /\ UNCHANGED envDup

\* the drain of both runs ends
PairWouldBlock ==
    /\ pc = "drain" /\ twin.pc = "drain"
    /\ Becomes(RunWouldBlock(Self))
    /\ twin' = RunWouldBlock(twin)
    /\ UNCHANGED envDup

\* the twin receives m once more during a drain
DupRecv(m) ==
    /\ twin.pc = "drain"
    /\ twin' = store_segments(twin, m)
    /\ UNCHANGED <<envDup, queue, received_buffer, read_seg_count, base_byte_offset,
                   bytes_downloaded, file, requested, sent, message_buffer, socket, timeout,
                   stderr, pc>>

\* the twin is woken by m arriving once more, and finds nothing else to receive
DupWakeup(m) ==
    /\ twin.pc = "wait"
    /\ twin' = EndIteration(store_segments(twin, m))
    /\ UNCHANGED <<envDup, queue, received_buffer, read_seg_count, base_byte_offset,
                   bytes_downloaded, file, requested, sent, message_buffer, socket, timeout,
                   stderr, pc>>

NextDup ==
    \/ PairLoop
    \/ PairTimeout
    \/ \E m \in Answerable(Self) \cap Answerable(twin) : PairRecv(m)
    \/ PairWouldBlock
    \/ \E m \in twin.delivered : DupRecv(m)
    \/ \E m \in twin.delivered : DupWakeup(m)

SpecDup == InitDup /\ [][NextDup]_vars

----------------------------------------------------------------------------
(* The range iterator run on its own *)

\* the largest file and the largest segment size the iterator is run with
MaxIterFile == 12
MaxIterSeg == 5

\* SegmentByteRangeIter::new
SegmentByteRangeIter_new(fsize, seg) ==
    [base_byte_offset |-> 0, file_size |-> fsize, seg_size |-> seg,
     yielded |-> <<>>, ended |-> FALSE]

\* the iterators run: every small file with every small segment size, the files
\* of the downloader with its segment size, and the two of the unit tests
IterInputs ==
    { SegmentByteRangeIter_new(f, s) : f \in 0..MaxIterFile, s \in 1..MaxIterSeg }
    \cup { SegmentByteRangeIter_new(f, SegmentSIZE) : f \in FileSizes }
    \cup { SegmentByteRangeIter_new(1000, 300), SegmentByteRangeIter_new(100, 1000) }

InitIter ==
    /\ argv = <<>>
    /\ file_exists = FALSE
    /\ file_size = 0
    /\ InitRun(Unbuilt(<<>>))
    /\ twin = NoTwin
    /\ seg_iter \in IterInputs
    /\ registry = NoRegistry

\* SegmentByteRangeIter::next returns Some(range)
IterSome ==
    /\ IterHasNext(seg_iter.base_byte_offset, seg_iter.file_size)
    /\ LET r == IterNextRange(seg_iter.base_byte_offset, seg_iter.file_size, seg_iter.seg_size)
       IN  seg_iter' = [seg_iter EXCEPT !.base_byte_offset = r.end,
                                        !.yielded = Append(@, r)]
    /\ UNCHANGED <<argv, file_exists, file_size, queue, received_buffer, read_seg_count,
                   base_byte_offset, bytes_downloaded, file, requested, sent,
                   message_buffer, socket, timeout, stderr, pc, twin, registry>>

\* SegmentByteRangeIter::next returns None
IterNone ==
    /\ ~IterHasNext(seg_iter.base_byte_offset, seg_iter.file_size)
    /\ seg_iter' = [seg_iter EXCEPT !.ended = TRUE]
    /\ UNCHANGED <<argv, file_exists, file_size, queue, received_buffer, read_seg_count,
                   base_byte_offset, bytes_downloaded, file, requested, sent,
                   message_buffer, socket, timeout, stderr, pc, twin, registry>>

NextIter == IterSome \/ IterNone

SpecIter == InitIter /\ [][NextIter]_vars

----------------------------------------------------------------------------
(* The Window used on its own: built by Window::new, its segments written    *)
(* in any order, shrunk and extended the way Downloader::download calls it   *)
(* (an extend after every shrink, and extends without a shrink)              *)

\* the largest file the window is built over has MaxWindowSegs full segments,
\* optionally followed by a short one
MaxWindowSegs == 7
WindowFileSizes == { k * SegmentSIZE + t : k \in 0..MaxWindowSegs, t \in {0, TailLen} }

InitWindow ==
    /\ argv = <<>>
    /\ file_exists = FALSE
    /\ file_size \in WindowFileSizes
    /\ InitRun([Unbuilt(<<>>) EXCEPT !.queue = Window_new(file_size).queue,
                                     !.base_byte_offset = Window_new(file_size).base_byte_offset,
                                     !.pc = "window"])
    /\ twin = NoTwin
    /\ seg_iter = NoIter
    /\ registry = NoRegistry

\* window[range].write_all(data) for the range of a segment that is not received
WinWrite ==
    /\ pc = "window"
    /\ \E i \in 1..Len(queue) :
          /\ ~Segment_is_received(queue[i])
          /\ Becomes([Self EXCEPT !.queue[i] =
                         Segment_write_all(@, [start |-> @.byte_range.start,
                                               len |-> RangeLen(@.byte_range),
                                               src |-> TRUE])])
    /\ UNCHANGED env

\* Window::shrink (read_seg_count is kept below a bound)
WinShrink ==
    /\ pc = "window"
    /\ read_seg_count <= 2 * MaxWindowSegs
    /\ Becomes([Window_shrink(Self) EXCEPT !.pc = "shrunk"])
    /\ UNCHANGED env

\* Window::extend
WinExtend ==
    /\ pc \in {"window", "shrunk"}
    /\ Becomes([Window_extend(Self) EXCEPT !.pc = "window"])
    /\ UNCHANGED env

NextWindow == WinWrite \/ WinShrink \/ WinExtend

SpecWindow == InitWindow /\ [][NextWindow]_vars

----------------------------------------------------------------------------
(* The Registry on its own: the epoll instance, the interests and the waits *)

\* the file descriptors registered are 3..MaxFd
MaxFd == 5
Fds == 3..MaxFd

EventTypes == {"Read", "Write"}

\* Registry::READ_FLAGS, Registry::WRITE_FLAGS
READ_FLAGS == "EPOLLIN"
WRITE_FLAGS == "EPOLLOUT"
\* Registry::READ_KEY, Registry::WRITE_KEY
READ_KEY == 0
WRITE_KEY == 1

\* EventType::read_event
EventType_read_event == [events |-> READ_FLAGS, u64 |-> READ_KEY]

\* EventType::write_event
EventType_write_event == [events |-> READ_FLAGS, u64 |-> READ_KEY]

\* EventType::epoll_event
EventType_epoll_event(event_type) ==
    IF event_type = "Read" THEN EventType_read_event ELSE EventType_write_event

\* no entry of the epoll instance's interest list
NoEvent == [events |-> "none", u64 |-> 0]

\* Registry::new: no interest, an empty events vector, an empty epoll instance;
\* ready holds, for each descriptor, the flags of the conditions that hold of it
Registry_new ==
    [pc           |-> "idle",
     instances    |-> [fd \in Fds |-> << >>],
     interest     |-> [fd \in Fds |-> NoEvent],
     ready        |-> [fd \in Fds |-> {}],
     events       |-> << >>,
     result       |-> "none",
     notification |-> "none",
     stderr       |-> ""]

\* the interests of descriptor fd with that of event_type set to event
InsertInterest(interests, event_type, event) ==
    [t \in DOMAIN interests \cup {event_type} |->
        IF t = event_type THEN event ELSE interests[t]]

\* the interests of descriptor fd without that of event_type
RemoveInterest(interests, event_type) ==
    [t \in DOMAIN interests \ {event_type} |-> interests[t]]

\* Registry::add_interest: the interest is put into instances, then
\* epoll_ctl(EPOLL_CTL_ADD), which fails when fd is in the interest list already
Registry_add_interest(r, event_type, fd) ==
    LET new_interest_epoll_event == EventType_epoll_event(event_type)
        inserted == [r EXCEPT !.instances[fd] =
                                 InsertInterest(@, event_type, new_interest_epoll_event)]
    IN  IF r.interest[fd] # NoEvent
        THEN [inserted EXCEPT !.result = "err"]
        ELSE [inserted EXCEPT !.interest[fd] = inserted.instances[fd][event_type],
                              !.result = "ok"]

\* Registry::delete_interest: epoll_ctl(EPOLL_CTL_DEL), which fails when fd is
\* not in the interest list, then the interest is removed from instances
Registry_delete_interest(r, event_type, fd) ==
    IF r.interest[fd] = NoEvent
    THEN [r EXCEPT !.result = "err"]
    ELSE [r EXCEPT !.interest[fd] = NoEvent,
                   !.instances[fd] = RemoveInterest(@, event_type),
                   !.result = "ok"]

\* the descriptors of the interest list of which a condition asked for holds
Harvestable(r) ==
    { fd \in Fds : r.interest[fd] # NoEvent /\ r.interest[fd].events \in r.ready[fd] }

\* the order in which epoll_wait reports descriptors
RECURSIVE SeqOfFds(_)
SeqOfFds(S) ==
    IF S = {} THEN << >>
    ELSE LET fd == CHOOSE x \in S : \A y \in S : x <= y
         IN  <<fd>> \o SeqOfFds(S \ {fd})

\* epoll_wait(epfd, events, maxevents, timeout): EINVAL (-1) when maxevents is
\* not positive; else the number of events reported, at most maxevents, which
\* is 0 when the timeout passes with no condition holding
epoll_wait(r, maxevents) ==
    IF maxevents <= 0 THEN 0 - 1
    ELSE IF Cardinality(Harvestable(r)) < maxevents
         THEN Cardinality(Harvestable(r)) ELSE maxevents

\* Registry::await_events: the events vector is cleared and its length is
\* passed as maxevents; an error of epoll_wait ends the process; else the
\* vector is given the length epoll_wait returned
Registry_await_events(r) ==
    LET cleared == [r EXCEPT !.events = << >>]
        res     == epoll_wait(cleared, Len(cleared.events))
        fds     == SeqOfFds(Harvestable(cleared))
        set     == [cleared EXCEPT !.events =
                       [i \in 1..res |-> [fd |-> fds[i], event |-> cleared.interest[fds[i]]]]]
    IN  IF res = 0 - 1
        THEN [cleared EXCEPT !.pc = "exit1", !.stderr = "error during epoll wait",
                             !.notification = "none"]
        ELSE IF Len(set.events) = 0
             THEN [set EXCEPT !.notification = "Timeout"]
             ELSE [set EXCEPT !.notification = "Events"]

\* what a step of the Registry leaves alone
envRegistry ==
    <<argv, file_exists, file_size, queue, received_buffer, read_seg_count,
      base_byte_offset, bytes_downloaded, file, requested, sent, message_buffer,
      socket, timeout, stderr, pc, twin, seg_iter>>

InitRegistry ==
    /\ argv = <<>>
    /\ file_exists = FALSE
    /\ file_size = 0
    /\ InitRun(Unbuilt(<<>>))
    /\ twin = NoTwin
    /\ seg_iter = NoIter
    /\ registry = Registry_new

\* registry.add_interest(event_type, fd)
RegAddInterest(event_type, fd) ==
    /\ registry.pc = "idle"
    /\ registry' = Registry_add_interest(registry, event_type, fd)
    /\ UNCHANGED envRegistry

\* registry.delete_interest(event_type, fd)
RegDeleteInterest(event_type, fd) ==
    /\ registry.pc = "idle"
    /\ registry' = Registry_delete_interest(registry, event_type, fd)
    /\ UNCHANGED envRegistry

\* a datagram arrives at descriptor fd, or its last datagram is read
RegReadiness(fd) ==
    /\ registry.pc = "idle"
    /\ registry' = [registry EXCEPT !.ready[fd] =
                       IF READ_FLAGS \in @ THEN @ \ {READ_FLAGS} ELSE @ \cup {READ_FLAGS}]
    /\ UNCHANGED envRegistry

\* registry.await_events()
RegAwaitEvents ==
    /\ registry.pc = "idle"
    /\ registry' = Registry_await_events(registry)
    /\ UNCHANGED envRegistry

NextRegistry ==
    \/ \E event_type \in EventTypes : \E fd \in Fds : RegAddInterest(event_type, fd)
    \/ \E event_type \in EventTypes : \E fd \in Fds : RegDeleteInterest(event_type, fd)
    \/ \E fd \in Fds : RegReadiness(fd)
    \/ RegAwaitEvents

SpecRegistry == InitRegistry /\ [][NextRegistry]_vars

----------------------------------------------------------------------------
(* What the claims speak of *)

\* the bytes of the output file
FileContent(f) == [i \in 1..Len(f) |-> f[i].data]

RECURSIVE SumLen(_)
SumLen(chunks) == IF chunks = <<>> THEN 0 ELSE Head(chunks).len + SumLen(Tail(chunks))

\* the length of the output file
FileLength(f) == SumLen(FileContent(f))

\* the ranges of a file of fsize bytes, in order
SegmentRanges(fsize) ==
    LET segs == TakeRanges(0, fsize, fsize)
    IN  [i \in 1..Len(segs) |-> segs[i].byte_range]

\* the source file, as chunks
SourceFile(fsize) ==
    LET rs == SegmentRanges(fsize)
    IN  [i \in 1..Len(rs) |-> [start |-> rs[i].start, len |-> RangeLen(rs[i]), src |-> TRUE]]

\* the number of appends made for the segment of range r
Appends(f, r) == Cardinality({ i \in 1..Len(f) : f[i].byte_range = r })

----------------------------------------------------------------------------
(* Claims *)

\* C1: with a correct server, when download() has finished the output file
\* equals the source file byte for byte and its length is file_size
C1_FileReconstructed ==
    pc = "done" => /\ FileContent(file) = SourceFile(file_size)
                   /\ FileLength(file) = file_size

\* C2: no segment's payload is appended twice, and when the run is over every
\* segment's payload has been appended exactly once
C2_NoDoubleWrite ==
    \A i \in 1..Len(SegmentRanges(file_size)) :
        LET r == SegmentRanges(file_size)[i]
        IN  /\ Appends(file, r) <= 1
            /\ pc = "done" => Appends(file, r) = 1

\* C3: with a correct and fair server the loop eventually ends with
\* bytes_downloaded = file_size and the program exits successfully
C3_Terminates == <>(pc = "done" /\ bytes_downloaded = file_size)

\* C4: bytes_downloaded never exceeds file_size, and is file_size when the loop
\* has been left (the final assertion does not fail)
C4_BytesBounded ==
    /\ bytes_downloaded <= file_size
    /\ pc = "done" => bytes_downloaded = file_size
    /\ pc # "assert_failed"

\* C5: no step decreases bytes_downloaded or read_seg_count, and a value of
\* bytes_downloaded that is no multiple of 500 is its final value
C5_MonotoneProgress ==
    [][ /\ bytes_downloaded' >= bytes_downloaded
        /\ read_seg_count' >= read_seg_count
        /\ (bytes_downloaded % SegmentSIZE # 0 => bytes_downloaded' = bytes_downloaded) ]_vars

\* C5 witness: segments have been persisted in more than one step, the short
\* last one among them
C5_Witness ==
    /\ bytes_downloaded % SegmentSIZE = TailLen
    /\ read_seg_count >= 2
    /\ Len(file) >= 2

\* C6: the queue never holds more than Window::SIZE segments
C6_WindowBounded == Len(queue) <= SIZE

\* C6 witness: a full queue whose tail was pushed by extend after a shrink
C6_Witness ==
    /\ Len(queue) = SIZE
    /\ read_seg_count > 0
    /\ queue[Len(queue)].byte_range.start >= SIZE * SegmentSIZE

\* C7: the head of a non-empty queue starts at read_seg_count * 500
C7_WindowBase ==
    queue # <<>> => queue[1].byte_range.start = read_seg_count * SegmentSIZE

\* C8: adjacent segments of the queue have adjacent ranges
C8_Contiguity ==
    \A i \in 1..(Len(queue) - 1) : queue[i].byte_range.end = queue[i + 1].byte_range.start

\* C8 witness: a queue of several segments after shrink and extend have acted
C8_Witness ==
    /\ Len(queue) >= 2
    /\ read_seg_count > 0
    /\ queue[Len(queue)].byte_range.start >= SIZE * SegmentSIZE

\* C9: two runs that differ only in response datagrams received additional
\* times end with the same output file
C9_DuplicateTolerance ==
    (pc = "done" /\ twin.pc = "done") => FileContent(file) = FileContent(twin.file)

\* C10: the receipt of a malformed datagram changes neither the window nor
\* the file nor bytes_downloaded, and the drain goes on (the process does not end)
C10_MalformedDropped ==
    [][(\E m \in Malformed : Recv(m))
        => /\ queue' = queue
           /\ received_buffer' = received_buffer
           /\ read_seg_count' = read_seg_count
           /\ file' = file
           /\ bytes_downloaded' = bytes_downloaded
           /\ pc' = "drain"]_vars

\* the datagram m comes from the server and decodes to a response whose start
\* is below read_seg_count * 500 or at or after the end of the window
OutsideWindow(m) ==
    /\ m.sender = "server"
    /\ is_message_size_valid(MessageSize(m))
    /\ Response_new(m).outcome = "ok"
    /\ \/ m.start < read_seg_count * SegmentSIZE
       \/ m.start >= (read_seg_count + Len(queue)) * SegmentSIZE

\* C11: the receipt of a response whose range is outside the window (the step
\* is the recv_from that put it into the receive buffer) changes no segment of
\* the window and nothing of the file, and the drain goes on
C11_OutsideDropped ==
    [][(OutsideWindow(message_buffer') /\ Recv(message_buffer'))
       => /\ queue' = queue
          /\ received_buffer' = received_buffer
          /\ read_seg_count' = read_seg_count
          /\ file' = file
          /\ bytes_downloaded' = bytes_downloaded
          /\ pc' = "drain"]_vars

\* C11 witness: after a slide, the drain has just received a response to a
\* segment from before the slide while segments are still awaited
C11_Witness ==
    /\ pc = "drain"
    /\ OutsideWindow(message_buffer)
    /\ message_buffer.start < read_seg_count * SegmentSIZE
    /\ queue # <<>>
    /\ \E i \in 1..Len(queue) : ~Segment_is_received(queue[i])

\* C12: the receipt of a datagram whose sender is not the server changes no
\* segment of the window whatever it holds, and the drain goes on
C12_OtherSenderIgnored ==
    [][(message_buffer'.sender = "other" /\ Recv(message_buffer'))
       => /\ queue' = queue
          /\ received_buffer' = received_buffer
          /\ read_seg_count' = read_seg_count
          /\ file' = file
          /\ pc' = "drain"]_vars

\* C12 witness: the drain has just received, from another sender, what would be
\* the response to the head of the queue, which is still not received
C12_Witness ==
    /\ pc = "drain"
    /\ message_buffer.sender = "other"
    /\ message_buffer.kind = "data"
    /\ queue # <<>>
    /\ message_buffer.start = Head(queue).byte_range.start
    /\ message_buffer.length = Segment_len(Head(queue))
    /\ Window_contains(Self, Head(queue).byte_range)
    /\ ~Segment_is_received(Head(queue))

\* C13: a segment of the queue that is Received holds the payload of a response
\* whose range is the segment's own range, same start and same length
C13_ExactRange ==
    \A i \in 1..Len(queue) :
        Segment_is_received(queue[i])
        => /\ queue[i].data.start = queue[i].byte_range.start
           /\ queue[i].data.len = Segment_len(queue[i])

\* C14: in every state of the download the output file is the payloads of the
\* first read_seg_count segments of the source, in order
C14_FileInOrder ==
    pc \in {"loop", "wait", "drain", "done", "assert_failed"}
    => /\ Len(file) = read_seg_count
       /\ \A i \in 1..Len(file) :
             /\ i <= Len(SegmentRanges(file_size))
             /\ file[i].byte_range = SegmentRanges(file_size)[i]
             /\ file[i].data = SourceFile(file_size)[i]

\* the number of requests of the latest send phase for the range of segment seg
RequestsFor(seg) ==
    Cardinality({ k \in 1..Len(sent) :
                    /\ sent[k].start = seg.byte_range.start
                    /\ sent[k].length = seg.byte_range.end - seg.byte_range.start })

\* C15: when a send phase is over, it has emitted one request for every segment
\* of the queue that is NotReceived, none for a Received one and no other, in
\* the order of the queue
C15_RequestsNotReceived ==
    pc = "wait"
    => /\ \A i \in 1..Len(queue) :
             RequestsFor(queue[i]) = IF queue[i].status = "NotReceived" THEN 1 ELSE 0
       /\ Len(sent) = Cardinality({ i \in 1..Len(queue) : queue[i].status = "NotReceived" })
       /\ \A k \in 1..(Len(sent) - 1) : sent[k].start < sent[k + 1].start

\* C15 witness: a send phase is over in which a segment is requested again
\* while a later segment of the queue, requested with it before, is Received
C15_Witness ==
    /\ pc = "wait"
    /\ \E i \in 1..Len(queue) : \E j \in (i + 1)..Len(queue) :
          /\ queue[i].status = "NotReceived"
          /\ queue[j].status = "Received"
          /\ RequestsFor(queue[i]) = 1
          /\ RequestsFor(queue[j]) = 0

\* the messages of the two errors of C16
SendFailed == "cannot send to the server"
WriteFailed == "could not append to file"

\* C16: the step in which send_to or write_all fails ends the process with
\* status 1 before the rest of the send phase or of the writes is done, and once
\* it has failed no request is sent and nothing is appended to the file
C16_FatalIoError ==
    [][ /\ stderr' \in {SendFailed, WriteFailed} => pc' = "exit1"
        /\ (stderr = "" /\ stderr' = SendFailed)
           => Len(sent') < Cardinality({ i \in 1..Len(queue) : queue[i].status = "NotReceived" })
        /\ (stderr = "" /\ stderr' = WriteFailed)
           => Len(file') < Len(file) + Len(received_buffer) + slide_len(queue)
        /\ stderr \in {SendFailed, WriteFailed}
           => /\ sent' = sent
              /\ requested' = requested
              /\ file' = file
              /\ bytes_downloaded' = bytes_downloaded ]_vars

\* C16 witness: the process has exited on a write error after requests were sent
\* and earlier writes succeeded
C16_Witness ==
    /\ pc = "exit1"
    /\ stderr = WriteFailed
    /\ sent # <<>>
    /\ Len(file) >= 1
    /\ bytes_downloaded < file_size

\* the output file's name was that of a file before the program ran
FileExisted == file # <<>> /\ Head(file) = Head(Preexisting)

\* C17: when a file of the output file's name exists, the file stays as it was,
\* no request is ever sent, and the construction of the Downloader is the end
\* of the process
C17_ExclusiveCreate ==
    FileExisted
    => /\ file = Preexisting
       /\ sent = <<>>
       /\ requested = {}
       /\ pc \in {"start", "new", "exit1"}
       /\ socket # "unbound" => pc = "exit1"

\* C17 witness: Downloader::new has failed on the file that exists
C17_Witness ==
    /\ FileExisted
    /\ pc = "exit1"
    /\ socket # "unbound"
    /\ stderr = "error occurred while opening the file"

\* the command line a holds, after the program's name, an IPv4 address, a port,
\* a file name and a file size
ValidArgv(a) ==
    /\ Len(a) >= 5
    /\ a[2].kind = "ip"
    /\ a[3].kind = "num" /\ a[3].val <= 65535
    /\ a[5].kind = "num"

\* C18: the parser takes the size from the fourth parameter of a command line
\* whose four parameters are there and well formed; on any other command line
\* the process exits with status 1 and a message, no socket is bound, no file
\* is created or touched and no window is built
C18_ConfigParser ==
    [][pc = "start"
       => IF ValidArgv(argv)
          THEN /\ pc' = "new"
               /\ file_size' = argv[5].val
               /\ stderr' = ""
          ELSE /\ pc' = "exit1"
               /\ stderr' # ""
               /\ socket' = "unbound"
               /\ file_exists' = file_exists
               /\ file' = file
               /\ queue' = <<>>]_vars

\* C18 witness: the process has exited on a command line whose first three
\* parameters were read and whose file size is no number
C18_Witness ==
    /\ pc = "exit1"
    /\ stderr = "invalid format of file length"
    /\ socket = "unbound"
    /\ ~file_exists
    /\ queue = <<>>

\* C19: every request emitted is "GET <start> <length>\n" with start a multiple
\* of 500, 1 <= length <= 500 and start + length <= file_size, and when the send
\* phase is over [start, start + length) is the range of a segment of the queue
C19_RequestFormat ==
    \A k \in 1..Len(sent) :
        /\ sent[k].verb = "GET" /\ sent[k].lf
        /\ sent[k].start % SegmentSIZE = 0
        /\ 1 <= sent[k].length /\ sent[k].length <= 500
        /\ sent[k].start + sent[k].length <= file_size
        /\ pc = "wait"
           => \E i \in 1..Len(queue) :
                 queue[i].byte_range = ByteRange(sent[k].start, sent[k].start + sent[k].length)

\* C19 witness: a send phase is over that requested a full segment and the
\* short last segment of the file
C19_Witness ==
    /\ pc = "wait"
    /\ \E k \in 1..Len(sent) : sent[k].length = TailLen /\ sent[k].start > 0
    /\ \E k \in 1..Len(sent) : sent[k].length = 500

\* the number of ranges of seg bytes it takes to cover fsize bytes
RangeCount(fsize, seg) == (fsize + seg - 1) \div seg

C21_SlideAfterDrain == pc = "loop" => slide_len(queue) = 0

\* C22: the shrink of a timeout removes the k segments of the longest Received
\* prefix of the queue and no other, adds k to read_seg_count, and hands to the
\* caller (who appends them to the file) those k segments in order
C22_ShrinkExact ==
    [][Timeout
       => LET k == slide_len(queue)
          IN  /\ read_seg_count' = read_seg_count + k
              /\ Len(file') = Len(file) + k
              /\ \A j \in 1..k :
                    /\ j <= Len(file') - Len(file)
                    /\ file'[Len(file) + j].byte_range = queue[j].byte_range
                    /\ file'[Len(file) + j].data = queue[j].data
              /\ \A j \in 1..(Len(queue) - k) :
                    /\ j <= Len(queue')
                    /\ queue'[j] = queue[k + j]]_vars

\* C24: received_buffer is empty whenever shrink may be called, that is in
\* every wait
C24_RecycledEmpty == pc = "wait" => received_buffer = <<>>

\* the ranges a response may carry: every start up to one segment beyond the
\* largest file, aligned or not, with a full or a short length
ProbeRanges ==
    { ByteRange(k * SegmentSIZE + o, k * SegmentSIZE + o + n) :
        k \in 0..(2 * MaxWindowSegs + 2), o \in {0, 1, SegmentSIZE - 1}, n \in {TailLen, SegmentSIZE} }

\* C26: for every range the window contains, the index start/500 -
\* read_seg_count lies within the queue and the segment there starts at
\* 500 * (start / 500)
C26_IndexInBounds ==
    \A r \in ProbeRanges :
        Window_contains(Self, r)
        => LET i == Window_index(Self, r)
           IN  /\ 1 <= i /\ i <= Len(queue)
               /\ queue[i].byte_range.start = SegmentSIZE * (r.start \div SegmentSIZE)

\* the number of ranges the iterator of the window has still to yield
RangesLeft ==
    IF base_byte_offset < file_size
    THEN RangeCount(file_size - base_byte_offset, SegmentSIZE) ELSE 0

\* C23: a call of extend leaves the queue it finds in place and appends to it
\* min(|received_buffer|, ranges left) segments, which carry the next ranges of
\* the iterator in order, are NotReceived and hold no data; the iterator is
\* left behind the last range appended
C23_ExtendExact ==
    [][WinExtend
       => LET n == Len(received_buffer)
              a == IF n < RangesLeft THEN n ELSE RangesLeft
              from(j) == base_byte_offset + (j - 1) * SegmentSIZE
              to(j) == IF from(j) + SegmentSIZE < file_size
                       THEN from(j) + SegmentSIZE ELSE file_size
          IN  /\ Len(queue') = Len(queue) + a
              /\ \A j \in 1..Len(queue) : j <= Len(queue') /\ queue'[j] = queue[j]
              /\ \A j \in 1..a :
                    /\ Len(queue) + j <= Len(queue')
                    /\ queue'[Len(queue) + j] =
                          [byte_range |-> ByteRange(from(j), to(j)),
                           status |-> "NotReceived", data |-> NoData]
              /\ base_byte_offset' = IF a = 0 THEN base_byte_offset ELSE to(a)]_vars

\* C23 witness: an extend has appended the two last ranges of the file, the
\* short one among them, in the place of segments that had been Received
C23_Witness ==
    /\ pc = "window"
    /\ read_seg_count >= 2
    /\ received_buffer = <<>>
    /\ Len(queue) >= 2
    /\ base_byte_offset = file_size
    /\ queue[Len(queue)].byte_range.start >= (SIZE + 1) * SegmentSIZE
    /\ Segment_len(queue[Len(queue)]) = TailLen
    /\ queue[Len(queue)].status = "NotReceived"
    /\ queue[Len(queue) - 1].status = "NotReceived"

\* the window is as Window::new built it
Fresh ==
    /\ read_seg_count = 0
    /\ received_buffer = <<>>
    /\ queue = TakeRanges(0, file_size, SIZE)

\* C25: contains(range) is read_seg_count*500 <= range.start < (read_seg_count
\* + queue.len())*500 and depends on range.start alone; the window just built
\* over a file of more than SIZE segments contains the ranges that start at 0
\* and at (SIZE-1)*500 and not the one that starts at SIZE*500
C25_Contains ==
    /\ \A r \in ProbeRanges :
          Window_contains(Self, r)
          <=> /\ read_seg_count * 500 <= r.start
              /\ r.start < (read_seg_count + Len(queue)) * 500
    /\ \A r1, r2 \in ProbeRanges :
          r1.start = r2.start => (Window_contains(Self, r1) <=> Window_contains(Self, r2))
    /\ (Fresh /\ file_size > SIZE * 500)
       => /\ Window_contains(Self, ByteRange(0, file_size))
          /\ Window_contains(Self, ByteRange((SIZE - 1) * 500, SIZE * 500))
          /\ ~Window_contains(Self, ByteRange(SIZE * 500, SIZE * 500 + 500))

\* C25 witness: a full window that has slid, which contains the range of its
\* head and of its tail and not the first range of the file any more
C25_Witness ==
    /\ pc = "window"
    /\ read_seg_count >= 1
    /\ received_buffer = <<>>
    /\ Len(queue) = SIZE
    /\ Window_contains(Self, Head(queue).byte_range)
    /\ Window_contains(Self, queue[SIZE].byte_range)
    /\ ~Window_contains(Self, ByteRange(0, 500))

C28_SendThenReceive ==
    [][ (pc \in {"loop", "wait", "drain"})
        => /\ (pc = "loop")
              => /\ pc' \in {"wait", "exit1", "done", "assert_failed"}
                 /\ message_buffer' = message_buffer
                 /\ queue' = queue
                 /\ received_buffer' = received_buffer
                 /\ file' = file
           /\ (pc \in {"wait", "drain"})
              => /\ pc' \in {"drain", "loop", "exit1", "panic"}
                 /\ sent' = sent
                 /\ requested' = requested
           /\ (pc' = "wait")
              => /\ pc = "loop"
                 /\ Len(sent') = Len(unacknowledged_segments(Self))
                 /\ \A i \in 1..Len(sent') :
                       sent'[i] = Segment_request(unacknowledged_segments(Self)[i])
           /\ (pc' = "drain")
              => /\ pc \in {"wait", "drain"}
                 /\ message_buffer' \in AnyDatagram(Self)
           /\ (pc = "drain") => (file' = file)
           /\ (message_buffer' # message_buffer) => (pc \in {"wait", "drain"})
      ]_vars

\* C28 witness: a second send phase has ended, after a cycle that received a
\* response and recorded it
C28_Witness ==
    /\ pc = "wait"
    /\ Len(sent) >= 1
    /\ message_buffer # NoDatagram
    /\ \E i \in 1..Len(queue) : Segment_is_received(queue[i])
    /\ \E i \in 1..Len(queue) : ~Segment_is_received(queue[i])

\* C29: the socket is in non-blocking mode whenever the program waits for
\* events or reads from the socket (the wait and the drain, and the states a
\* read datagram ended the program in), and in blocking mode when a send_to of
\* the send phase has failed
C29_SocketMode ==
    /\ pc \in {"wait", "drain", "panic"} => socket = "nonblocking"
    /\ stderr = "invalid response format" => socket = "nonblocking"
    /\ stderr = SendFailed => socket = "blocking"

\* C29 witness: a send_to has failed in a cycle that follows a drain, which
\* left the socket in non-blocking mode
C29_Witness ==
    /\ pc = "exit1"
    /\ stderr = SendFailed
    /\ socket = "blocking"
    /\ message_buffer # NoDatagram
    /\ read_seg_count >= 1

\* C30: the deadline is TIMEOUT when the download starts, is TIMEOUT again
\* after every Timeout outcome, is max(0, timeout - sleep_time) after a wait that
\* ended with ReadReady after sleep_time, changes in no other step, and lies
\* between 0 and TIMEOUT in every state
C30_DeadlineAccounting ==
    /\ timeout = TIMEOUT
    /\ [](0 <= timeout /\ timeout <= TIMEOUT)
    /\ [][ /\ Timeout => timeout' = TIMEOUT
           /\ \A sleep_time \in SleepTimes :
                 ReadReady(sleep_time, message_buffer')
                 => timeout' = (IF timeout - sleep_time > 0 THEN timeout - sleep_time ELSE 0)
           /\ (pc # "wait") => (timeout' = timeout) ]_vars

\* C30 witness: a wait has ended with ReadReady after more time than was left
\* of the deadline
C30_Witness ==
    /\ pc = "drain"
    /\ timeout = 0
    /\ message_buffer # NoDatagram

\* C31: once the waits that ended with ReadReady have used up the deadline
\* while a segment of the window is not received, a wait ends with Timeout (the
\* deadline is TIMEOUT again), unless the program has ended
C31_DeadlineFires ==
    (pc = "wait" /\ timeout = 0 /\ \E i \in 1..Len(queue) : ~Segment_is_received(queue[i]))
        ~> (timeout = TIMEOUT \/ pc \in {"done", "exit1", "panic", "assert_failed"})

\* C32: every datagram recv_from yields leaves the program in the drain, and
\* the drain ends with WouldBlock only
C32_DrainCompleteness ==
    [][ /\ Recv(message_buffer') => (pc' = "drain")
        /\ (pc = "drain" /\ pc' # "drain") => WouldBlock ]_vars

\* C33: the Window of a Downloader just constructed holds the first
\* min(SIZE, number of ranges) ranges of the file in order, each in a segment
\* that is NotReceived and has no data; the iterator is at the next range, the
\* recycled buffer is empty and read_seg_count is 0
C33_WindowConstruction ==
    [][ (Construct /\ pc' = "loop")
        => LET ranges == RangeCount(file_size, SegmentSIZE)
               n      == IF ranges < SIZE THEN ranges ELSE SIZE
           IN  /\ Len(queue') = n
               /\ \A i \in 1..n :
                     /\ queue'[i].byte_range.start = (i - 1) * SegmentSIZE
                     /\ queue'[i].byte_range.end =
                          (IF i * SegmentSIZE < file_size THEN i * SegmentSIZE ELSE file_size)
                     /\ ~Segment_is_received(queue'[i])
                     /\ queue'[i].data.len = 0
               /\ base_byte_offset' =
                    (IF n * SegmentSIZE < file_size THEN n * SegmentSIZE ELSE file_size)
               /\ received_buffer' = <<>>
               /\ read_seg_count' = 0 ]_vars

\* C33 witness: the Downloader has just been constructed for a file of more
\* than SIZE ranges
C33_Witness ==
    /\ pc = "loop"
    /\ requested = {}
    /\ Len(queue) = SIZE
    /\ RangeCount(file_size, SegmentSIZE) > SIZE
    /\ base_byte_offset = SIZE * SegmentSIZE

\* C34: a datagram is recorded in a segment only if its size is valid, its
\* header's length is between 1 and 500, and the bytes after the LF number
\* exactly that length (so that what is recorded is the datagram's own payload)
C34_ResponseValidity ==
    [][ (Recv(message_buffer') /\ queue' # queue)
        => /\ message_buffer'.kind = "data"
           /\ is_message_size_valid(MessageSize(message_buffer'))
           /\ 1 <= message_buffer'.length
           /\ message_buffer'.length <= MAX_DATA_LENGTH
           /\ message_buffer'.body = message_buffer'.length ]_vars

\* C35: every Received segment of the queue and of the recycled buffer holds
\* data of exactly the length of its range
C35_SegmentDataLength ==
    \A seg \in { queue[i] : i \in 1..Len(queue) }
                \cup { received_buffer[i] : i \in 1..Len(received_buffer) } :
        Segment_is_received(seg) => seg.data.len = RangeLen(seg.byte_range)

\* C36: while the download runs and when it has returned, the length of the
\* output file is bytes_downloaded
C36_FileLength ==
    pc \in {"loop", "wait", "drain", "done", "assert_failed"}
        => FileLength(file) = bytes_downloaded

\* C37: read_seg_count is the number of segments appended to the file, each
\* counted once, which is bytes_downloaded / 500 rounded up
C37_Accounting ==
    pc \in {"loop", "wait", "drain", "done", "assert_failed"}
        => /\ read_seg_count = Len(file)
           /\ read_seg_count = Cardinality({ file[i].byte_range : i \in 1..Len(file) })
           /\ read_seg_count = (bytes_downloaded + SegmentSIZE - 1) \div SegmentSIZE

\* the ranges the iterator of the window has still to yield, in order
RangesToCome ==
    LET segs == TakeRanges(base_byte_offset, file_size, file_size)
    IN  [i \in 1..Len(segs) |-> segs[i].byte_range]

\* the ranges appended to the file, and those of the queue, in order
PersistedRanges == [i \in 1..Len(file) |-> file[i].byte_range]
QueueRanges == [i \in 1..Len(queue) |-> queue[i].byte_range]

\* C38: the ranges persisted, those of the queue and those the iterator has
\* still to yield are, in this order, the ranges of the file, each once
C38_Conservation ==
    pc \in {"loop", "wait", "drain", "done", "assert_failed"}
        => PersistedRanges \o QueueRanges \o RangesToCome = SegmentRanges(file_size)

\* C39: the interest add_interest registers for Read is (EPOLLIN, READ_KEY) and
\* the one it registers for Write is (EPOLLOUT, WRITE_KEY), in the Registry's
\* own table and in the epoll instance
C39_InterestMatches ==
    [][ \A event_type \in EventTypes : \A fd \in Fds :
          (RegAddInterest(event_type, fd) /\ registry'.result = "ok")
          => LET expected == IF event_type = "Read"
                             THEN [events |-> READ_FLAGS, u64 |-> READ_KEY]
                             ELSE [events |-> WRITE_FLAGS, u64 |-> WRITE_KEY]
             IN  /\ registry'.instances[fd][event_type] = expected
                 /\ registry'.interest[fd] = expected ]_vars

\* C40: await_events returns Timeout when no descriptor of the interest list is
\* ready, and otherwise Events with exactly the events of the ready ones
C40_AwaitEvents ==
    [][ RegAwaitEvents
        => /\ registry'.pc = "idle"
           /\ (registry'.notification = "Timeout") <=> (Harvestable(registry) = {})
           /\ (registry'.notification = "Events") <=> (Harvestable(registry) # {})
           /\ { registry'.events[i].fd : i \in 1..Len(registry'.events) }
                 = Harvestable(registry) ]_vars

====
